---- MODULE Spec2Model ----
(***************************************************************************)
(* A model of qunfold/methods/likelihood.py: the expectation-maximization  *)
(* routine maximize_expectation, the fit/predict lifecycle of              *)
(* LikelihoodMaximizer and ExpectationMaximizer, and the regularized loss  *)
(* of LikelihoodMaximizer.predict.                                         *)
(*                                                                         *)
(* Real numbers are exact rationals <<n, d>> in lowest terms with d > 0,   *)
(* so that equal numbers are equal values.  Arrays carry their shape, as   *)
(* the code's broadcasting and its final squeeze depend on it.             *)
(***************************************************************************)
EXTENDS Integers, Sequences, FiniteSets, TLC

VARIABLES
  \* maximize_expectation: the arguments of the call
  pYX, p_trn, max_iter, tol,
  \* maximize_expectation: the locals of the loop and how the call ended
  p_prev, p_next, n_iter, pc, ret,
  \* an estimator object, its classifier and the last call made on it
  self, clf, call, seen,
  \* the arrays and names of the maximize_expectation call a predict runs
  mem,
  \* one evaluation of the loss closure of LikelihoodMaximizer.predict
  loss_in, loss_out

emVars == <<pYX, p_trn, max_iter, tol, p_prev, p_next, n_iter, pc, ret>>
estVars == <<self, clf, call, seen, mem>>
lossVars == <<loss_in, loss_out>>
vars == <<emVars, estVars, lossVars>>

\* The value of a variable a specification does not use.
Idle == "idle"
\* Python's None where a number is expected (tol=None): the empty tuple,
\* which no rational <<n, d>> equals.
None == <<>>

---------------------------------------------------------------------------
\* Bounds of the model.

\* max_iter ranges over 0..MaxIter.
MaxIter == 3
\* a batch holds 1..MaxBags bags.
MaxBags == 2
\* the loss is evaluated for 1..MaxClasses classes.
MaxClasses == 4
\* an estimator receives at most MaxCalls calls.
MaxCalls == 3

---------------------------------------------------------------------------
\* Exact rational arithmetic.

\* The element of a one-element set.  {f(v) : v \in {e}} evaluates e once
\* and hands f its value.
The(S) == CHOOSE v \in S : TRUE

Abs(x) == IF x < 0 THEN -x ELSE x

RECURSIVE GCD(_, _)
GCD(a, b) == IF b = 0 THEN a ELSE GCD(b, a % b)

\* The rational n/d (d # 0) in lowest terms with a positive denominator.
Rat(n, d) ==
  LET g == GCD(Abs(n), Abs(d))
      s == IF d < 0 THEN -1 ELSE 1
  IN <<(s * n) \div g, (s * d) \div g>>

Zero == <<0, 1>>
One == <<1, 1>>
RAdd(a, b) == Rat(a[1] * b[2] + b[1] * a[2], a[2] * b[2])
RSub(a, b) == Rat(a[1] * b[2] - b[1] * a[2], a[2] * b[2])
RMul(a, b) == Rat(a[1] * b[1], a[2] * b[2])
RDiv(a, b) == Rat(a[1] * b[2], a[2] * b[1])
RLess(a, b) == a[1] * b[2] < b[1] * a[2]
RLeq(a, b) == a[1] * b[2] <= b[1] * a[2]

RECURSIVE SumTo(_, _)
SumTo(v, k) == IF k = 0 THEN Zero ELSE RAdd(SumTo(v, k - 1), v[k])
\* jnp.sum of a vector; the sum of an empty vector is 0.
Sum(v) == SumTo(v, Len(v))

---------------------------------------------------------------------------
\* Arrays.  A matrix of one bag is a sequence (items) of vectors (classes).
\* pYX is [ndim |-> 2 or 3, bags |-> the bags]: shape (n_items, n_classes)
\* holds one bag, shape (n_bags, n_items, n_classes) holds n_bags of them.
\* An array of prevalences is [shape |-> its shape, rows |-> its vectors]:
\* shape <<n>> and <<1, n>> hold one vector, <<B, 1, n>> and <<B, n>> hold B.

Vec(shape, rows) == [shape |-> shape, rows |-> rows]

\* The vector of array a that broadcasting pairs with bag b.
RowOf(a, b) == IF Len(a.rows) = 1 THEN a.rows[1] ELSE a.rows[b]

\* A variant of DivideByPrior that forgets the division by the prior.
DivideByPriorOmitted(bag, prior) ==
  [i \in 1..Len(bag) |-> [c \in 1..Len(prior) |-> bag[i][c]]]

\* pYX / p_trn (line 92), for one bag: every row divided elementwise.
DivideByPrior(bag, prior) ==
  [i \in 1..Len(bag) |-> [c \in 1..Len(prior) |-> RDiv(bag[i][c], prior[c])]]

\* pYX_pY = pYX / p_trn (line 92), for every bag.
Ratio(x, prior) == [b \in 1..Len(x.bags) |-> DivideByPrior(x.bags[b], prior)]

\* pYX_pY * p_prev (line 95), for one bag and the vector broadcast to it.
Reweight(ratio, p) ==
  [i \in 1..Len(ratio) |-> [c \in 1..Len(p) |-> RMul(ratio[i][c], p[c])]]

\* A variant of Normalize that skips the normalization.
NormalizeSkipped(m) ==
  [i \in 1..Len(m) |-> [c \in 1..Len(m[i]) |-> m[i][c]]]

\* pYX / pYX.sum(axis=-1, keepdims=True) (line 96), for one bag.
Normalize(m) ==
  [i \in 1..Len(m) |-> [c \in 1..Len(m[i]) |-> RDiv(m[i][c], Sum(m[i]))]]

\* pYX.mean(axis=-2) (line 97), for one bag: the mean over its items.
Mean(m) ==
  [c \in 1..Len(m[1]) |->
     RDiv(Sum([i \in 1..Len(m) |-> m[i][c]]), <<Len(m), 1>>)]

\* The shape of p_next: the mean keeps the item axis with size 1 (line 97).
NextShape(x) ==
  IF x.ndim = 2 THEN <<1, Len(x.bags[1][1])>>
  ELSE <<Len(x.bags), 1, Len(x.bags[1][1])>>

\* Lines 95-97: the estimate that follows prev, for every bag.
EStep(x, ratio, prev) ==
  Vec(NextShape(x),
      [b \in 1..Len(ratio) |->
         Mean(Normalize(Reweight(ratio[b], RowOf(prev, b))))])

\* The squared Euclidean length of a - b.
SqDist(a, b) ==
  Sum([c \in 1..Len(a) |-> RMul(RSub(a[c], b[c]), RSub(a[c], b[c]))])

\* jnp.linalg.norm(a - b) < t (line 99) for one bag.  A norm is never
\* negative, so for t <= 0 the comparison is false; for t > 0 it is the
\* comparison of the squares.
NormBelow(a, b, t) == RLess(Zero, t) /\ RLess(SqDist(a, b), RMul(t, t))

\* A variant of Converged that takes one norm over all bags (no axis=-1).
ConvergedJointNorm(nxt, prev, t) ==
  /\ RLess(Zero, t)
  /\ RLess(Sum([b \in 1..Len(nxt.rows) |->
                  SqDist(nxt.rows[b], RowOf(prev, b))]),
           RMul(t, t))

\* jnp.all(jnp.linalg.norm(p_next - p_prev, axis=-1) < tol) (line 99).
Converged(nxt, prev, t) ==
  \A b \in 1..Len(nxt.rows) : NormBelow(nxt.rows[b], RowOf(prev, b), t)

\* jnp.squeeze(a, axis=-2) succeeds when a has a second-to-last axis and
\* that axis has size 1; otherwise it raises.
CanSqueeze(a) ==
  /\ Len(a.shape) >= 2
  /\ a.shape[Len(a.shape) - 1] = 1

\* jnp.squeeze(a, axis=-2) (lines 103, 111): the array without that axis.
Squeeze(a) ==
  Vec([k \in 1..(Len(a.shape) - 1) |->
         IF k < Len(a.shape) - 1 THEN a.shape[k] ELSE a.shape[k + 1]],
      a.rows)

MsgSuccess == "Optimization terminated successfully."
MsgMaxIter == "Maximum number of iterations reached."

\* Result(x, nit, message): the value the routine returns.
Result(x, nit, message) == [x |-> x, nit |-> nit, message |-> message]
\* How a call that raised ended.
Raised == [error |-> "squeeze: axis -2 is out of bounds"]

\* A local name not bound yet, and the return value of a call still running.
Unbound == Vec(<<>>, <<>>)
Pending == [pending |-> TRUE]

\* The state of one call: its locals, where it stands and what it returned.
\* pc is "ITERATING" in the loop, "TERMINATED" after a return and "RAISED"
\* after an exception left the routine.
Begin(prior) ==
  [p_prev |-> Vec(<<Len(prior)>>, <<prior>>), p_next |-> Unbound,
   n_iter |-> 0, pc |-> "ITERATING", ret |-> Pending]

\* One execution of the loop body (lines 95-107); s.n_iter is the value the
\* loop variable takes, and afterwards the number of bodies executed.
BodyWith(t, s, nxt) ==
  IF t # None /\ Converged(nxt, s.p_prev, t)
  THEN [s EXCEPT !.p_next = nxt, !.n_iter = s.n_iter + 1,
                 !.pc = IF CanSqueeze(nxt) THEN "TERMINATED" ELSE "RAISED",
                 !.ret = IF CanSqueeze(nxt)
                         THEN Result(Squeeze(nxt), s.n_iter + 1, MsgSuccess)
                         ELSE Raised]
  ELSE [s EXCEPT !.p_next = nxt, !.p_prev = nxt, !.n_iter = s.n_iter + 1]

LoopBody(x, prior, t, s) ==
  The({BodyWith(t, s, nxt) : nxt \in {EStep(x, Ratio(x, prior), s.p_prev)}})

\* The statements after the loop (lines 108-114).
LoopExit(limit, s) ==
  [s EXCEPT !.pc = IF CanSqueeze(s.p_prev) THEN "TERMINATED" ELSE "RAISED",
            !.ret = IF CanSqueeze(s.p_prev)
                    THEN Result(Squeeze(s.p_prev), limit, MsgMaxIter)
                    ELSE Raised]

RECURSIVE RunLoop(_, _, _, _, _)
RunLoop(x, prior, limit, t, s) ==
  IF s.pc # "ITERATING" THEN s
  ELSE IF s.n_iter < limit
       THEN The({RunLoop(x, prior, limit, t, s2) : s2 \in {LoopBody(x, prior, t, s)}})
  ELSE LoopExit(limit, s)

\* maximize_expectation(pYX, p_trn, max_iter, tol) run to its end (lines
\* 82-114): what it returns, or Raised.
MaximizeExpectation(x, prior, limit, t) ==
  The({RunLoop(x, prior, limit, t, s).ret : s \in {Begin(prior)}})

---------------------------------------------------------------------------
\* The inputs of maximize_expectation.  The values are chosen so that the
\* exact arithmetic of MaxIter + 1 iterations stays within TLC's integers:
\* posterior rows are the prior itself or one-hot, bags hold 1, 2 or 4 items.

Half == <<1, 2>>
Priors == { <<Half, Half>>, << <<1, 4>>, <<3, 4>> >>,
            <<Half, <<3, 10>>, <<1, 5>> >> }

OneHot(n, k) == [c \in 1..n |-> IF c = k THEN One ELSE Zero]

\* The posterior rows drawn for a prior: the prior, or a one-hot row.
RowsFor(prior) ==
  {prior} \cup {OneHot(Len(prior), k) : k \in 1..Len(prior)}

\* The bags drawn for a prior: one row; the prior's row with another row;
\* one item of class 1 and one of class 2; or four items that all have the
\* prior as their posterior (the exact, noiseless case).
BagsFor(prior) ==
  {<<r>> : r \in RowsFor(prior)}
    \cup {<<prior, r>> : r \in RowsFor(prior)}
    \cup {<<OneHot(Len(prior), 1), OneHot(Len(prior), 2)>>}
    \cup {<<prior, prior, prior, prior>>}

\* pYX of shape (n_items, n_classes), or (n_bags, n_items, n_classes) with
\* bags of one size.
BatchesFor(prior) ==
  {[ndim |-> 2, bags |-> <<g>>] : g \in BagsFor(prior)}
    \cup UNION {
      {[ndim |-> 3, bags |-> bs] :
         bs \in {q \in [1..n -> BagsFor(prior)] :
                   \A b \in 1..n : Len(q[b]) = Len(q[1])}}
      : n \in 1..MaxBags}

\* tol: None (no convergence check), 0, and positive tolerances.
Tols == {None, Zero, <<1, 32>>, <<1, 8>>, <<1, 4>>, <<2, 1>>}

---------------------------------------------------------------------------
\* The routine, one loop iteration at a time.

InitEM ==
  /\ p_trn \in Priors
  /\ pYX \in BatchesFor(p_trn)
  /\ max_iter \in 0..MaxIter
  /\ tol \in Tols
  /\ p_prev = Begin(p_trn).p_prev
  /\ p_next = Begin(p_trn).p_next
  /\ n_iter = 0
  /\ pc = "ITERATING"
  /\ ret = Pending
  /\ self = Idle /\ clf = Idle /\ call = Idle /\ seen = Idle /\ mem = Idle
  /\ loss_in = Idle /\ loss_out = Idle

Locals == [p_prev |-> p_prev, p_next |-> p_next, n_iter |-> n_iter,
           pc |-> pc, ret |-> ret]

Assign(s) ==
  /\ p_prev' = s.p_prev
  /\ p_next' = s.p_next
  /\ n_iter' = s.n_iter
  /\ pc' = s.pc
  /\ ret' = s.ret
  /\ UNCHANGED <<pYX, p_trn, max_iter, tol, estVars, lossVars>>

\* for n_iter in range(max_iter): one more body (lines 94-107).
Iterate ==
  /\ pc = "ITERATING"
  /\ n_iter < max_iter
  /\ Assign(LoopBody(pYX, p_trn, tol, Locals))

\* The loop is exhausted: lines 108-114.
Exhaust ==
  /\ pc = "ITERATING"
  /\ n_iter >= max_iter
  /\ Assign(LoopExit(max_iter, Locals))

NextEM == Iterate \/ Exhaust

SpecEM == InitEM /\ [][NextEM]_vars

---------------------------------------------------------------------------
\* Properties of maximize_expectation (under SpecEM).

Returned == pc = "TERMINATED"
Ended == pc # "ITERATING"
TolPositive == tol # None /\ RLess(Zero, tol)

\* A vector on the probability simplex: no negative entry, sum 1.
OnSimplex(v) == (\A c \in 1..Len(v) : RLeq(Zero, v[c])) /\ Sum(v) = One

\* The estimates p_0 = p_trn, p_1, ..., p_k of k loop bodies none of which
\* returns: acc holds the first of them, k more are added.
RECURSIVE Estimates(_, _, _, _)
Estimates(x, prior, acc, k) ==
  IF k = 0 THEN acc
  ELSE The({Estimates(x, prior, Append(acc, nxt), k - 1) :
              nxt \in {EStep(x, Ratio(x, prior), acc[Len(acc)])}})

\* Body k (the step from est[k] to est[k + 1]) changes every bag's estimate
\* by a Euclidean distance below tol.
CloseAt(est, k) ==
  /\ TolPositive
  /\ \A b \in 1..Len(pYX.bags) :
       RLess(SqDist(est[k + 1].rows[b], RowOf(est[k], b)), RMul(tol, tol))

\* The result the specification describes for the call in progress: success
\* at the first close body, else the last estimate at max_iter.
DescribedFor(est) ==
  LET close == {k \in 1..max_iter : CloseAt(est, k)}
      outShape == IF pYX.ndim = 2 THEN <<Len(p_trn)>>
                  ELSE <<Len(pYX.bags), Len(p_trn)>>
  IN IF close # {}
     THEN LET k == CHOOSE j \in close : \A i \in close : j <= i
          IN Result(Vec(outShape, est[k + 1].rows), k, MsgSuccess)
     ELSE Result(Vec(outShape, est[max_iter + 1].rows), max_iter, MsgMaxIter)

Described ==
  The({DescribedFor(est) :
         est \in {Estimates(pYX, p_trn, <<Vec(<<Len(p_trn)>>, <<p_trn>>)>>,
                            max_iter)}})

\* C1: for tol > 0 the routine is ITERATING or TERMINATED and nothing else,
\* it never runs more than max_iter bodies, a call that is no longer
\* iterating has TERMINATED, and the count it reports is at most max_iter.
C1_TerminatesWithinBudget ==
  TolPositive =>
    /\ pc \in {"ITERATING", "TERMINATED"}
    /\ n_iter <= max_iter
    /\ (Ended => Returned /\ ret.nit <= max_iter)

\* The part of C1 the code satisfies: with max_iter >= 1 the above holds,
\* and every step that stays in the loop has run one more body, so the loop
\* leaves after at most max_iter steps.
C1_HoldsFromOneIteration == max_iter >= 1 => C1_TerminatesWithinBudget
C1_EveryStepCounts ==
  [][(pc = "ITERATING" /\ pc' = "ITERATING") => n_iter' = n_iter + 1]_vars

\* C2: with max_iter = 0 (and p_trn of shape (n_classes,)) the call returns
\* p_trn unchanged, in shape and values, with count 0 and the
\* maximum-iterations status.
C2_ZeroBudgetReturnsPrior ==
  (max_iter = 0 /\ Ended) =>
    /\ Returned
    /\ ret = Result(Vec(<<Len(p_trn)>>, <<p_trn>>), 0, MsgMaxIter)

\* C3: the call reports success with count k exactly when k is the first
\* body whose change is below tol for every bag, returning that body's
\* p_next; and it reports the maximum-iterations status with count max_iter
\* and the last estimate exactly when no body among the first max_iter is.
C3_StatusCharacterised == Ended => (Returned /\ ret = Described)

\* The part of C3 the code satisfies: with max_iter >= 1, as stated.
C3_HoldsFromOneIteration == max_iter >= 1 => C3_StatusCharacterised

\* C4: with tol = None exactly max_iter bodies run, none returns early, and
\* the call reports count max_iter with the maximum-iterations status.
C4_NoCheckRunsFullBudget ==
  (tol = None /\ Ended) =>
    /\ Returned
    /\ n_iter = max_iter
    /\ ret.nit = max_iter
    /\ ret.message = MsgMaxIter

\* The part of C4 the code satisfies: with max_iter >= 1, as stated.
C4_HoldsFromOneIteration == max_iter >= 1 => C4_NoCheckRunsFullBudget

\* The posteriors are exact for the prior: every row sums to 1 and the mean
\* of the rows of every bag is the prior.
ExactPosteriors ==
  \A b \in 1..Len(pYX.bags) :
    /\ \A i \in 1..Len(pYX.bags[b]) : Sum(pYX.bags[b][i]) = One
    /\ Mean(pYX.bags[b]) = p_trn

\* The shape of the returned array.
OutShape ==
  IF pYX.ndim = 2 THEN <<Len(p_trn)>> ELSE <<Len(pYX.bags), Len(p_trn)>>

\* C5: with exact posteriors, tol > 0 and max_iter >= 1 the first body
\* yields p_next = p_trn and the call returns p_trn after exactly one
\* iteration with the success status.
C5_ExactConvergesAtOnce ==
  (ExactPosteriors /\ TolPositive /\ max_iter >= 1) =>
    /\ n_iter <= 1
    /\ n_iter = 1 =>
         /\ \A b \in 1..Len(p_next.rows) : p_next.rows[b] = p_trn
         /\ Returned
         /\ ret = Result(Vec(OutShape, [b \in 1..Len(pYX.bags) |-> p_trn]),
                         1, MsgSuccess)

\* The scenario of C5 has run: 3 classes, p_trn = [0.5, 0.3, 0.2], four
\* items whose posterior is p_trn.
C5_Witness ==
  /\ p_trn = <<Half, <<3, 10>>, <<1, 5>> >>
  /\ pYX = [ndim |-> 2, bags |-> << <<p_trn, p_trn, p_trn, p_trn>> >>]
  /\ TolPositive /\ max_iter >= 1
  /\ Returned /\ ret.nit = 1

\* C6: every estimate held in p_prev or p_next, and every vector returned,
\* has no negative entry and sums to 1.
C6_SimplexInvariant ==
  /\ \A b \in 1..Len(p_prev.rows) : OnSimplex(p_prev.rows[b])
  /\ \A b \in 1..Len(p_next.rows) : OnSimplex(p_next.rows[b])
  /\ Returned => \A b \in 1..Len(ret.x.rows) : OnSimplex(ret.x.rows[b])

\* A call returned after several bodies an estimate that is not the prior.
C6_Witness ==
  /\ Returned /\ ret.nit >= 2
  /\ ret.x.rows[1] # p_trn
  /\ p_prev.rows[1] # p_trn

\* The bags of the batch are copies of one bag.
IdenticalBags == \A b \in 1..Len(pYX.bags) : pYX.bags[b] = pYX.bags[1]

\* C7: a batch of B copies of a bag ends as the single-bag problem does:
\* B vectors equal to the single-bag vector, the same count, the same status.
C7_BatchIndependence ==
  (Ended /\ pYX.ndim = 3 /\ IdenticalBags) =>
    \A single \in {MaximizeExpectation([ndim |-> 2, bags |-> <<pYX.bags[1]>>],
                                       p_trn, max_iter, tol)} :
      IF single = Raised THEN ret = Raised
      ELSE /\ Returned
           /\ ret.nit = single.nit
           /\ ret.message = single.message
           /\ ret.x.shape = <<Len(pYX.bags), Len(p_trn)>>
           /\ single.x.shape = <<Len(p_trn)>>
           /\ \A b \in 1..Len(pYX.bags) : ret.x.rows[b] = single.x.rows[1]

\* A batch of several copies converged after several bodies.
C7_Witness ==
  /\ pYX.ndim = 3 /\ Len(pYX.bags) >= 2 /\ IdenticalBags
  /\ Returned /\ ret.message = MsgSuccess /\ ret.nit >= 2
  /\ ret.x.rows[1] # p_trn

---------------------------------------------------------------------------
\* The loss closure of LikelihoodMaximizer.predict (lines 38-43).

\* Python's a[lo:hi] of a vector, lo >= 0 and hi counted from the start;
\* an empty slice where hi <= lo.
Slice(a, lo, hi) ==
  [k \in 1..(IF hi > lo THEN hi - lo ELSE 0) |-> a[lo + k]]

\* a[lo:] and a[:-cut]: the end is clipped to the vector as Python does.
From(a, lo) == Slice(a, IF lo < Len(a) THEN lo ELSE Len(a), Len(a))
ButLast(a, cut) == Slice(a, 0, Len(a) - cut)

Two == <<2, 1>>

\* xi_0 = jnp.sum((p[1:] - p[:-1])**2) / 2 (line 41).
Xi0(p) ==
  RDiv(Sum([k \in 1..Len(From(p, 1)) |->
              RMul(RSub(From(p, 1)[k], ButLast(p, 1)[k]),
                   RSub(From(p, 1)[k], ButLast(p, 1)[k]))]),
       Two)

\* The k-th entry of -p[:-2] + 2 * p[1:-1] - p[2:] (line 42).
SecondDiff(p, k) ==
  RSub(RSub(RMul(Two, Slice(p, 1, Len(p) - 1)[k]), ButLast(p, 2)[k]),
       From(p, 2)[k])

\* A variant of Xi1 that takes the differences over p[:-1] instead of
\* p[:-2], so that two classes already have one.
Xi1OffByOne(p) ==
  RDiv(Sum([k \in 1..Len(ButLast(p, 1)) |->
              RMul(RSub(p[k], p[k + 1]), RSub(p[k], p[k + 1]))]),
       Two)

\* xi_1 = jnp.sum((-p[:-2] + 2 * p[1:-1] - p[2:])**2) / 2 (line 42).
Xi1(p) ==
  RDiv(Sum([k \in 1..Len(ButLast(p, 2)) |->
              RMul(SecondDiff(p, k), SecondDiff(p, k))]),
       Two)

\* pXY of lines 38-39: the posteriors over the prior, rows normalized.
LikelihoodRatio(proba, prior) == Normalize(DivideByPrior(proba, prior))

\* pXY @ p (line 43): one likelihood per item.
MatVec(m, p) ==
  [i \in 1..Len(m) |-> Sum([c \in 1..Len(p) |-> RMul(m[i][c], p[c])])]

\* loss(p) (lines 40-43).  The value is -mean(log(likelihoods)) + penalty;
\* the logarithm is kept symbolic, so a loss value is the pair of the
\* arguments of its base term and of its penalty.
Loss(pXY_, p, tau_0, tau_1) ==
  [likelihoods |-> MatVec(pXY_, p),
   xi_0 |-> Xi0(p),
   xi_1 |-> Xi1(p),
   penalty |-> RAdd(RMul(tau_0, Xi0(p)), RMul(tau_1, Xi1(p)))]

\* The priors of the loss model: uniform over 1..MaxClasses classes, and one
\* that is not uniform.
Quarter == <<1, 4>>
Uniform(n) == [c \in 1..n |-> Rat(1, n)]
LossPriors == {Uniform(n) : n \in 1..MaxClasses}
                \cup { <<Half, Quarter, Quarter>> }

RECURSIVE Count(_, _)
Count(q, k) == IF k = 0 THEN 0 ELSE Count(q, k - 1) + q[k]

\* The candidates the minimizer hands to the loss: the vectors of n
\* multiples of a quarter that sum to 1.
Candidates(n) ==
  {[c \in 1..n |-> Rat(q[c], 4)] :
     q \in {r \in [1..n -> 0..4] : Count(r, n) = 4}}

Taus == {Zero, Half, <<3, 1>>}

InitLoss ==
  /\ loss_in \in {[p_trn |-> q, proba |-> <<q, OneHot(Len(q), 1)>>,
                   tau_0 |-> t0, tau_1 |-> t1] :
                    q \in LossPriors, t0 \in Taus, t1 \in Taus}
  /\ loss_out = [p |-> <<>>]
  /\ pYX = Idle /\ p_trn = Idle /\ max_iter = Idle /\ tol = Idle
  /\ p_prev = Idle /\ p_next = Idle /\ n_iter = Idle /\ pc = Idle
  /\ ret = Idle
  /\ self = Idle /\ clf = Idle /\ call = Idle /\ seen = Idle /\ mem = Idle

\* The minimizer evaluates loss(p) for a candidate p.
Evaluate ==
  \E m \in {LikelihoodRatio(loss_in.proba, loss_in.p_trn)} :
    \E p \in Candidates(Len(loss_in.p_trn)) :
      /\ loss_out' = [p |-> p,
                      value |-> Loss(m, p, loss_in.tau_0, loss_in.tau_1)]
      /\ UNCHANGED <<loss_in, emVars, estVars>>

NextLoss == Evaluate

SpecLoss == InitLoss /\ [][NextLoss]_vars

\* The square of the second difference at classes i, i+1, i+2.
SqSecondDiff(p, i) ==
  RMul(RSub(RSub(RMul(Two, p[i + 1]), p[i]), p[i + 2]),
       RSub(RSub(RMul(Two, p[i + 1]), p[i]), p[i + 2]))

\* C9: for a candidate with fewer than 3 entries xi_1 is exactly 0 and the
\* penalty is tau_0 * xi_0 whatever tau_1 is; with n >= 3 entries xi_1 is
\* half the sum of the n - 2 squared second differences of consecutive
\* classes.
C9_OrdinalRegularizer ==
  \A p \in {loss_out.p} :
    Len(p) >= 1 =>
      /\ Len(p) < 3 =>
           /\ loss_out.value.xi_1 = Zero
           /\ loss_out.value.penalty =
                RMul(loss_in.tau_0,
                     RMul(Half, Sum([i \in 1..(Len(p) - 1) |->
                                       RMul(RSub(p[i + 1], p[i]),
                                            RSub(p[i + 1], p[i]))])))
      /\ Len(p) >= 3 =>
           loss_out.value.xi_1 =
             RMul(Half, Sum([i \in 1..(Len(p) - 2) |-> SqSecondDiff(p, i)]))

\* The loss was evaluated for two classes of unequal prevalence with
\* tau_1 > 0.
C9_Witness ==
  /\ Len(loss_out.p) = 2
  /\ loss_out.p[1] # loss_out.p[2]
  /\ RLess(Zero, loss_in.tau_1)
  /\ loss_out.value.xi_0 # Zero

---------------------------------------------------------------------------
\* The estimators: fit and predict of LikelihoodMaximizer and
\* ExpectationMaximizer (lines 31-50 and 68-80).

\* The attribute p_trn of an estimator that was never fitted.
Unset == <<>>
\* n_classes=None is <<>>, n_classes=k is <<k>>.
NoClasses == <<>>

Max(S) == CHOOSE m \in S : \A k \in S : k <= m
Labels(y) == {y[i] : i \in 1..Len(y)}
NClasses(y, n) == IF n = NoClasses THEN Max(Labels(y)) + 1 ELSE n[1]

\* check_y(y, n_classes) does not raise: every label is in [0, n_classes),
\* and with n_classes not given no class below the largest label is missing.
CheckYOk(y, n) ==
  /\ \A k \in Labels(y) : 0 <= k /\ k < NClasses(y, n)
  /\ n = NoClasses => \A k \in 0..(NClasses(y, n) - 1) : k \in Labels(y)

\* class_prevalences(y, n_classes): each class's share among the labels.
ClassPrevalences(y, n) ==
  [c \in 1..NClasses(y, n) |->
     Rat(Cardinality({i \in 1..Len(y) : y[i] = c - 1}), Len(y))]

\* classifier.predict_proba(X): a classifier over n classes that is sure of
\* the first class for item 1 and gives every other item equal
\* probabilities, so that the posteriors of the loop differ from them.
PredictProba(X, n) ==
  [i \in 1..Len(X) |-> IF X[i] = 1 THEN OneHot(n, 1) ELSE Uniform(n)]

\* classifier.fit(X, y): the classifier counts its fits and keeps the labels.
ClassifierFit(c, X, y) == [fit_calls |-> c.fit_calls + 1, X |-> X, y |-> y]

\* minimize(loss, n, solver, solver_options, seed): some point of the
\* simplex of n entries, here the uniform one or a corner.
Minimize(n) ==
  {Result(Vec(<<n>>, <<v>>), 1, MsgSuccess) :
     v \in {Uniform(n)} \cup {OneHot(n, k) : k \in 1..n}}

\* A variant of FitEffect that records p_trn before it validates the labels.
FitAssignsFirst(s, c, X, y, n) ==
  [self |-> [s EXCEPT !.p_trn = ClassPrevalences(y, n)],
   clf |-> IF CheckYOk(y, n) /\ s.fit_classifier THEN ClassifierFit(c, X, y)
           ELSE c,
   raised |-> ~CheckYOk(y, n)]

\* fit(X, y, n_classes) of both estimators (lines 31-36, 68-73) on the
\* estimator s with classifier c: what they are afterwards and whether the
\* call raised.
FitEffect(s, c, X, y, n) ==
  IF ~CheckYOk(y, n)
  THEN [self |-> s, clf |-> c, raised |-> TRUE]
  ELSE [self |-> [s EXCEPT !.p_trn = ClassPrevalences(y, n)],
        clf |-> IF s.fit_classifier THEN ClassifierFit(c, X, y) ELSE c,
        raised |-> FALSE]

AttributeError == [error |-> "no attribute p_trn"]

\* The arrays of a call of maximize_expectation.  heap holds the array
\* objects, an object being its index; arg names the objects the caller
\* handed in as pYX and p_trn, loc the object each name of the routine is
\* bound to (0: not bound yet).  Two names bound to one object are aliases.
NoCall ==
  [heap |-> <<>>, arg |-> [pYX |-> 0, p_trn |-> 0],
   loc |-> [pYX |-> 0, p_trn |-> 0, pYX_pY |-> 0, p_prev |-> 0, p_next |-> 0],
   n_iter |-> 0, pc |-> "IDLE", ret |-> Pending]

\* The array a name is bound to.
Deref(m, name) == m.heap[m.loc[name]]

\* A variant of Bind that stores the value into the array the name is
\* already bound to (name[...] = value) instead of binding the name anew.
BindInPlace(m, name, v) ==
  IF m.loc[name] = 0
  THEN [m EXCEPT !.heap = Append(m.heap, v), !.loc[name] = Len(m.heap) + 1]
  ELSE [m EXCEPT !.heap[m.loc[name]] = v]

\* name = <expression> where the expression builds a new array (lines 92,
\* 95, 96, 97): the name is bound to the new object, and the object it was
\* bound to, which other names may share, keeps its value.
Bind(m, name, v) ==
  [m EXCEPT !.heap = Append(m.heap, v), !.loc[name] = Len(m.heap) + 1]

\* name = other (lines 93, 107): both names are bound to one object.
Alias(m, name, other) == [m EXCEPT !.loc[name] = m.loc[other]]

\* The arrays ExpectationMaximizer.predict(X) builds for the call (lines
\* 76-77): jnp.array(...) of the classifier's posteriors and of self.p_trn.
Arguments(s, X) ==
  [NoCall EXCEPT
     !.heap = << [ndim |-> 2, bags |-> <<PredictProba(X, Len(s.p_trn))>>],
                 Vec(<<Len(s.p_trn)>>, <<s.p_trn>>) >>,
     !.arg = [pYX |-> 1, p_trn |-> 2],
     !.loc = [NoCall.loc EXCEPT !.pYX = 1, !.p_trn = 2],
     !.pc = "ITERATING"]

\* The routine up to its loop (lines 92-93): pYX_pY is a new array and
\* p_prev another name of the array p_trn.
Enter(m) ==
  The({Alias(m1, "p_prev", "p_trn") :
         m1 \in {Bind(m, "pYX_pY",
                      Ratio(Deref(m, "pYX"), Deref(m, "p_trn").rows[1]))}})

\* The locals of the loop as values, read through the names; p_next is
\* not bound before the first body has run.
LocalsOf(m) ==
  [p_prev |-> Deref(m, "p_prev"),
   p_next |-> IF m.loc.p_next = 0 THEN Unbound ELSE Deref(m, "p_next"),
   n_iter |-> m.n_iter, pc |-> m.pc, ret |-> m.ret]

\* pYX = pYX_pY * p_prev (line 95)
BindReweighted(m) ==
  Bind(m, "pYX",
       [ndim |-> Deref(m, "pYX").ndim,
        bags |-> [b \in 1..Len(Deref(m, "pYX_pY")) |->
                    Reweight(Deref(m, "pYX_pY")[b],
                             RowOf(Deref(m, "p_prev"), b))]])

\* pYX = pYX / pYX.sum(axis=-1, keepdims=True) (line 96)
BindNormalized(m) ==
  Bind(m, "pYX",
       [ndim |-> Deref(m, "pYX").ndim,
        bags |-> [b \in 1..Len(Deref(m, "pYX").bags) |->
                    Normalize(Deref(m, "pYX").bags[b])]])

\* p_next = pYX.mean(axis=-2, keepdims=True) (line 97)
BindMean(m) ==
  Bind(m, "p_next",
       Vec(NextShape(Deref(m, "pYX")),
           [b \in 1..Len(Deref(m, "pYX").bags) |->
              Mean(Deref(m, "pYX").bags[b])]))

\* Lines 98-107 on the arrays: the convergence check returns, or p_prev
\* becomes another name of the array p_next.
CheckOrAdvance(t, m) ==
  The({IF s.pc = "ITERATING"
       THEN [Alias(m, "p_prev", "p_next") EXCEPT !.n_iter = s.n_iter]
       ELSE [m EXCEPT !.n_iter = s.n_iter, !.pc = s.pc, !.ret = s.ret] :
         s \in {BodyWith(t, LocalsOf(m), Deref(m, "p_next"))}})

\* One execution of the loop body (lines 95-107) on the arrays.
BodyOnArrays(t, m) ==
  The({CheckOrAdvance(t, m3) :
         m3 \in {BindMean(m2) :
           m2 \in {BindNormalized(m1) :
             m1 \in {BindReweighted(m)}}}})

\* The statements after the loop (lines 108-114) on the arrays.
ExitOnArrays(limit, m) ==
  The({[m EXCEPT !.pc = s.pc, !.ret = s.ret] :
         s \in {LoopExit(limit, LocalsOf(m))}})

\* LikelihoodMaximizer.predict(X) (lines 37-50): the estimator afterwards
\* and the outcomes the minimizer may give.
LMPredict(s, X) ==
  [self |-> s,
   outs |-> IF s.p_trn = Unset THEN {AttributeError}
            ELSE Minimize(Len(s.p_trn))]

\* The labels and n_classes handed to fit.
FitInputs ==
  { <<<<0, 1>>, NoClasses>>, <<<<0, 1>>, <<2>>>>, <<<<1, 0, 1, 1>>, NoClasses>>,
    <<<<0, 2>>, NoClasses>>, <<<<0, 3>>, <<2>>>>, <<<<0, 1, 2>>, <<3>>>> }
\* The features handed to fit and predict: item numbers.
Features == { <<1>>, <<1, 2>>, <<2, 2>> }

NotSeen == [seen |-> FALSE]

InitEst ==
  /\ self \in {[kind |-> k, fit_classifier |-> f, max_iter |-> m,
                tol |-> Quarter, p_trn |-> Unset] :
                 k \in {"LikelihoodMaximizer", "ExpectationMaximizer"},
                 f \in BOOLEAN, m \in {0, MaxIter}}
  /\ clf = [fit_calls |-> 0, X |-> <<>>, y |-> <<>>]
  /\ call = [seq |-> 0, op |-> "none", X |-> <<>>, y |-> <<>>,
             n_classes |-> NoClasses, raised |-> FALSE,
             returned |-> NotSeen, repeat |-> FALSE]
  /\ seen = [prev |-> Unset, results |-> [X \in Features |-> NotSeen]]
  /\ mem = NoCall
  /\ pYX = Idle /\ p_trn = Idle /\ max_iter = Idle /\ tol = Idle
  /\ p_prev = Idle /\ p_next = Idle /\ n_iter = Idle /\ pc = Idle
  /\ ret = Idle
  /\ loss_in = Idle /\ loss_out = Idle

\* estimator.fit(X, y, n_classes)
Fit ==
  /\ mem.pc = "IDLE"
  /\ call.seq < MaxCalls
  /\ \E X \in Features, a \in FitInputs :
       \E e \in {FitEffect(self, clf, X, a[1], a[2])} :
         /\ self' = e.self
         /\ clf' = e.clf
         /\ call' = [seq |-> call.seq + 1, op |-> "fit", X |-> X, y |-> a[1],
                     n_classes |-> a[2], raised |-> e.raised,
                     returned |-> IF e.raised THEN [error |-> "check_y"]
                                  ELSE [estimator |-> e.self],
                     repeat |-> FALSE]
         /\ seen' = IF e.raised THEN seen
                    ELSE [prev |-> e.self.p_trn,
                          results |-> [Z \in Features |-> NotSeen]]
  /\ UNCHANGED <<mem, emVars, lossVars>>

\* estimator.predict(X) of an ExpectationMaximizer is called (lines 74-80):
\* reading self.p_trn raises on an estimator never fitted; otherwise the
\* arguments are built and maximize_expectation runs up to its loop (lines
\* 92-93).
PredictEM ==
  /\ mem.pc = "IDLE"
  /\ call.seq < MaxCalls
  /\ self.kind = "ExpectationMaximizer"
  /\ \E X \in Features :
       /\ call' = [seq |-> call.seq + 1, op |-> "predict", X |-> X,
                   y |-> <<>>, n_classes |-> NoClasses,
                   raised |-> self.p_trn = Unset,
                   returned |-> IF self.p_trn = Unset THEN AttributeError
                                ELSE Pending,
                   repeat |-> seen.results[X] # NotSeen]
       /\ IF self.p_trn = Unset
          THEN /\ mem' = mem
               /\ seen' = [seen EXCEPT !.results[X] = AttributeError]
          ELSE /\ mem' = Enter(Arguments(self, X))
               /\ seen' = seen
  /\ UNCHANGED <<self, clf, emVars, lossVars>>

\* for n_iter in range(max_iter): one more body of the call (lines 94-107).
PredictIterate ==
  /\ mem.pc = "ITERATING"
  /\ mem.n_iter < self.max_iter
  /\ mem' = BodyOnArrays(self.tol, mem)
  /\ UNCHANGED <<self, clf, call, seen, emVars, lossVars>>

\* The loop of the call is exhausted: lines 108-114.
PredictExhaust ==
  /\ mem.pc = "ITERATING"
  /\ mem.n_iter >= self.max_iter
  /\ mem' = ExitOnArrays(self.max_iter, mem)
  /\ UNCHANGED <<self, clf, call, seen, emVars, lossVars>>

\* return maximize_expectation(...) (line 75): predict hands on what the
\* routine returned or raised, and the arrays of the call are dropped.
PredictReturn ==
  /\ mem.pc \in {"TERMINATED", "RAISED"}
  /\ call' = [call EXCEPT !.raised = (mem.pc = "RAISED"),
                          !.returned = mem.ret]
  /\ seen' = [seen EXCEPT !.results[call.X] = mem.ret]
  /\ mem' = NoCall
  /\ UNCHANGED <<self, clf, emVars, lossVars>>

\* estimator.predict(X) of a LikelihoodMaximizer
PredictLM ==
  /\ mem.pc = "IDLE"
  /\ call.seq < MaxCalls
  /\ self.kind = "LikelihoodMaximizer"
  /\ \E X \in Features :
       \E e \in {LMPredict(self, X)} :
         \E out \in e.outs :
           /\ self' = e.self
           /\ call' = [seq |-> call.seq + 1, op |-> "predict", X |-> X,
                       y |-> <<>>, n_classes |-> NoClasses,
                       raised |-> out = AttributeError,
                       returned |-> out,
                       repeat |-> seen.results[X] # NotSeen]
           /\ seen' = [seen EXCEPT !.results[X] = out]
  /\ UNCHANGED <<clf, mem, emVars, lossVars>>

NextEst ==
  \/ Fit
  \/ PredictEM
  \/ PredictIterate
  \/ PredictExhaust
  \/ PredictReturn
  \/ PredictLM

SpecEst == InitEst /\ [][NextEst]_vars

---------------------------------------------------------------------------
\* Properties of the estimators (under SpecEst).

FitStep == call'.op = "fit" /\ call'.seq = call.seq + 1

\* C8: in fit, the validation of the labels comes first: when it raises,
\* the error reaches the caller, p_trn keeps the value it had and the
\* classifier is not fitted; when it does not, p_trn becomes
\* class_prevalences(y, n_classes), the classifier is fitted exactly when
\* fit_classifier is true, and the estimator is returned.
C8_FitValidatesFirst ==
  [][FitStep =>
       IF ~CheckYOk(call'.y, call'.n_classes)
       THEN /\ call'.raised
            /\ call'.returned = [error |-> "check_y"]
            /\ self' = self
            /\ clf' = clf
       ELSE /\ ~call'.raised
            /\ self' = [self EXCEPT
                          !.p_trn = ClassPrevalences(call'.y, call'.n_classes)]
            /\ call'.returned = [estimator |-> self']
            /\ self.fit_classifier =>
                 clf' = [fit_calls |-> clf.fit_calls + 1,
                         X |-> call'.X, y |-> call'.y]
            /\ ~self.fit_classifier => clf' = clf]_vars

\* A fit raised on an estimator that an earlier fit had fitted, classifier
\* included.
C8_Witness ==
  /\ call.op = "fit" /\ call.raised
  /\ self.p_trn # Unset
  /\ clf.fit_calls >= 1

\* A step in which a predict call ends, by returning or by raising.
PredictEnds ==
  /\ call'.op = "predict"
  /\ call'.returned # Pending
  /\ call'.seq = call.seq + 1 \/ (call'.seq = call.seq /\ call.returned = Pending)

\* The arrays predict hands to maximize_expectation as pYX and p_trn, as
\* they are when the call is made.
CallerPYX == [ndim |-> 2, bags |-> <<PredictProba(call.X, Len(self.p_trn))>>]
CallerPTrn == Vec(<<Len(self.p_trn)>>, <<self.p_trn>>)

\* C10: p_trn is always the prevalence vector the most recent successful
\* fit recorded, and no step of a predict call, of either estimator,
\* changes p_trn or the classifier.  While maximize_expectation runs and
\* when it has ended, the arrays its caller handed in as pYX and p_trn hold
\* the values they were handed in with, although p_prev starts as another
\* name of the array p_trn and pYX is assigned in the loop; the routine
\* starts at n_iter = 0 from p_prev = p_trn.  So an ExpectationMaximizer's
\* predict on features it was given since the last fit ends as the earlier
\* call ended: with the same Result, or raising as that one did.
C10_PredictLeavesPrior ==
  [][/\ self'.p_trn = seen'.prev
     /\ ~FitStep => (self' = self /\ clf' = clf)
     /\ mem'.pc # "IDLE" =>
          /\ mem'.heap[mem'.arg.pYX] = CallerPYX'
          /\ mem'.heap[mem'.arg.p_trn] = CallerPTrn'
          /\ mem'.heap[mem'.loc.p_trn] = CallerPTrn'
     /\ (mem.pc = "IDLE" /\ mem'.pc # "IDLE") =>
          /\ mem'.n_iter = 0
          /\ mem'.loc.p_prev = mem'.arg.p_trn
          /\ mem'.heap[mem'.loc.p_prev] = Vec(<<Len(seen.prev)>>, <<seen.prev>>)
     /\ (PredictEnds /\ self.kind = "ExpectationMaximizer" /\ call'.repeat) =>
          call'.returned = seen.results[call'.X]]_vars

\* An ExpectationMaximizer is asked a second time for features it was given
\* since the last fit, and the routine has just ended after two bodies with
\* the Result of the earlier call; the arrays of the call are still there,
\* and the arrays the names pYX and p_prev are bound to hold other values
\* than the arrays the caller handed in.
C10_Witness ==
  /\ call.op = "predict" /\ call.repeat
  /\ self.kind = "ExpectationMaximizer"
  /\ mem.pc = "TERMINATED"
  /\ mem.n_iter >= 2
  /\ mem.heap[mem.loc.pYX] # mem.heap[mem.arg.pYX]
  /\ mem.heap[mem.loc.p_prev] # mem.heap[mem.arg.p_trn]
  /\ mem.ret = seen.results[call.X]

====
